---- MODULE Spec2Model ----
(***************************************************************************)
(* Pattern validation and export of the geo-dash pattern generator          *)
(* (src/generators): the trajectory-based validator of physics_engine.py,   *)
(* the width scaling of pattern_library.py and save_pattern /               *)
(* generate_all_patterns of main.py; and the analytic validator of          *)
(* src/archive/pattern_generator_v3.py.  Further: the height, gap and       *)
(* generator helpers of obstacle_builders.py, pattern_library.py and the    *)
(* archive; the game's bar_type resolver (managers/bar_type_manager.py,     *)
(* game/obstacles.py); and the scores of managers/score_manager.py, whose   *)
(* save file is read and written in separate steps.                         *)
(*                                                                         *)
(* Vertical positions and velocities are kept in fifths of a pixel (names   *)
(* ending in 5): GRAVITY = 0.8 and JUMP_POWER = -15 make every simulated y  *)
(* a multiple of 0.2.  The code's doubles differ from these exact values by *)
(* less than 1e-12; for heights in grid units and the gaps below no         *)
(* comparison of validate_pattern changes its outcome.  Gap multipliers     *)
(* are kept in quarters ("gap-1.75" is 7), the only multipliers the         *)
(* builders emit; they are exact in binary floating point.                  *)
(* A bar_type string "bar-W-H" or "bar-W-F-C" is the sequence of the         *)
(* integers the builder formatted, <<W, H>> or <<W, F, C>>; SplitBar gives   *)
(* the pieces the validator's split('-') makes of the formatted string.     *)
(***************************************************************************)
EXTENDS Integers, Sequences, FiniteSets, TLC

\* ------------------------------------------------------------------ bounds
MaxLen == 2

\* ------------------------------------------------- physics_engine constants
GRAVITY5 == 4
JUMP_POWER5 == -75
PLAYER_SPEED == 6
GROUND_Y == 600
PLAYER_WIDTH == 40
PLAYER_HEIGHT == 40
NUM_STEPS == 50
START_X == 800
GRID == 30
LANDING_TOLERANCE == 5
FAR_MARGIN == 100

\* int(max_jump_height * 0.7), max_jump_height = JUMP_POWER^2 / (2 * GRAVITY)
MAX_OBSTACLE_HEIGHT == (JUMP_POWER5 * JUMP_POWER5 * 7) \div (100 * GRAVITY5)
\* int(total_air_time * PLAYER_SPEED), total_air_time = 2 * |JUMP_POWER| / GRAVITY
MAX_JUMP_DISTANCE == (2 * (0 - JUMP_POWER5) * PLAYER_SPEED) \div GRAVITY5
\* analytic thresholds of the archived validator
MAX_FORWARD_JUMP_HEIGHT == (MAX_OBSTACLE_HEIGHT * 4) \div 10
\* mutant: the climb limit is taken from max_jump_height * 0.7 before truncation
MAX_CLIMB_HEIGHT_UNTRUNCATED ==
    (JUMP_POWER5 * JUMP_POWER5 * 7 * 6) \div (100 * GRAVITY5 * 10)

MAX_CLIMB_HEIGHT == (MAX_OBSTACLE_HEIGHT * 6) \div 10

Max(a, b) == IF a >= b THEN a ELSE b

\* ------------------------------------------------------- obstacle builders
\* create_platform(width, height, gap, gap_hazard)
create_platform(width, height, gapq, hazard) ==
    [bar_type |-> <<width, height>>,
     gap_type |-> [mult4 |-> gapq, hazard |-> hazard],
     is_killzone |-> FALSE, continuous_lava |-> FALSE]

\* create_floating_platform(width, floor_height, ceiling_height, gap, gap_hazard)
create_floating_platform(width, floor, ceiling, gapq, hazard) ==
    [bar_type |-> <<width, floor, ceiling>>,
     gap_type |-> [mult4 |-> gapq, hazard |-> hazard],
     is_killzone |-> FALSE, continuous_lava |-> FALSE]

\* create_killzone(width, gap): a zero-height bar flagged is_killzone
create_killzone(width, gapq) ==
    [bar_type |-> <<width, 0>>,
     gap_type |-> [mult4 |-> gapq, hazard |-> "none"],
     is_killzone |-> TRUE, continuous_lava |-> FALSE]

\* create_pattern(name, description, obstacles, pattern_type, rhythm_hint)
create_pattern(name, description, obstacles, pattern_type, rhythm_hint) ==
    [name |-> name, description |-> description, obstacles |-> obstacles,
     metadata |-> [type |-> pattern_type, length |-> Len(obstacles),
                   rhythm |-> rhythm_hint]]

\* a pattern whose texts play no part: the name stands for the description
\* and the rhythm hint, the type is "platform"
plain_pattern(name, obstacles) == create_pattern(name, name, obstacles, "platform", name)

\* --------------------------------------------------------- input domains
BarWidths == {2, 4}
BarHeights == {0, 1, 3}
GapQuarters == {5, 7}

\* bars over the three small sets, one bar with a stacked successor ("gap-0"),
\* one tall floating platform with a hazard suffix, one killzone
ObstacleChoices ==
    { create_platform(w, h, g, "none") :
          w \in BarWidths, h \in BarHeights, g \in GapQuarters }
    \cup { create_platform(4, 1, 0, "none") }
    \cup { create_floating_platform(4, 4, 7, 7, "lava") }
    \cup { create_killzone(2, 7) }

ObstacleLists == UNION { [1..n -> ObstacleChoices] : n \in 0..MaxLen }

\* ------------------------------------------------------- physics_engine.py
\* mutant: the position that reached the ground is appended before the loop stops
RECURSIVE TrajectoryLoopKeepsLanding(_, _, _, _, _, _)
TrajectoryLoopKeepsLanding(trajectory, x, y5, vy5, start_x, n) ==
    IF n = 0 THEN trajectory
    ELSE LET t2 == Append(trajectory, [x |-> x, y5 |-> y5])
             x2 == x + PLAYER_SPEED
             y2 == y5 + vy5
             v2 == vy5 + GRAVITY5
         IN  IF y2 >= 5 * GROUND_Y \/ x2 > start_x + MAX_JUMP_DISTANCE + FAR_MARGIN
             THEN Append(t2, [x |-> x2, y5 |-> y2])
             ELSE TrajectoryLoopKeepsLanding(t2, x2, y2, v2, start_x, n - 1)

\* calculate_jump_trajectory: the loop, n iterations left
RECURSIVE TrajectoryLoop(_, _, _, _, _, _)
TrajectoryLoop(trajectory, x, y5, vy5, start_x, n) ==
    IF n = 0 THEN trajectory
    ELSE LET t2 == Append(trajectory, [x |-> x, y5 |-> y5])
             x2 == x + PLAYER_SPEED
             y2 == y5 + vy5
             v2 == vy5 + GRAVITY5
         IN  IF y2 >= 5 * GROUND_Y \/ x2 > start_x + MAX_JUMP_DISTANCE + FAR_MARGIN
             THEN t2
             ELSE TrajectoryLoop(t2, x2, y2, v2, start_x, n - 1)

\* The loop's stop conditions are relative to start_x, so the arc from start_x
\* is the arc from x = 0 shifted by start_x; the arcs from x = 0 are computed
\* once per start_y.
ArcFromZero ==
    [start_y \in 0..GROUND_Y |->
        TrajectoryLoop(<<>>, 0, 5 * start_y, JUMP_POWER5, 0, NUM_STEPS)]

calculate_jump_trajectory(start_x, start_y) ==
    [k \in 1..Len(ArcFromZero[start_y]) |->
        [x |-> start_x + ArcFromZero[start_y][k].x, y5 |-> ArcFromZero[start_y][k].y5]]

\* the landing test of platform_intersects_trajectory (line 97)
LandingTest(player_bottom5, platform_top) ==
    player_bottom5 >= 5 * (platform_top - LANDING_TOLERANCE)

\* mutant: the player's left edge, not its right edge, must have reached the platform
HorizontalOverlapLeftEdge(x, platform_x, platform_right) ==
    x >= platform_x /\ x <= platform_right

\* the horizontal overlap test of platform_intersects_trajectory (line 90)
HorizontalOverlap(x, platform_x, platform_right) ==
    x + PLAYER_WIDTH >= platform_x /\ x <= platform_right

platform_intersects_trajectory(trajectory, platform_x, platform_top, platform_width) ==
    \E i \in 1..Len(trajectory) :
        /\ HorizontalOverlap(trajectory[i].x, platform_x, platform_x + platform_width)
        /\ LandingTest(trajectory[i].y5 + 5 * PLAYER_HEIGHT, platform_top)

can_reach_platform(prev, next) ==
    LET jump_start_x == prev.x + prev.width
        jump_start_y == prev.y_top
        trajectory == calculate_jump_trajectory(jump_start_x, jump_start_y)
        distance == next.x - jump_start_x
    IN  IF platform_intersects_trajectory(trajectory, next.x, next.y_top, next.width)
        THEN [ok |-> TRUE, reason |-> "Platform reachable via jump arc"]
        ELSE IF distance > MAX_JUMP_DISTANCE
             THEN [ok |-> FALSE, reason |-> "Gap exceeds max jump"]
             ELSE [ok |-> FALSE, reason |-> "Platform not in jump arc"]

\* One piece of bar_type.replace('bar-', '').split('-'): a string of digits,
\* kept as its value, or the empty string.
DigitsPart(n) == [empty |-> FALSE, n |-> n]
EmptyPart == [empty |-> TRUE, n |-> 0]

\* the pieces one formatted field contributes: str() writes a negative number
\* with a leading '-', which split('-') turns into an empty piece in front of
\* the digits
FieldParts(n) == IF n < 0 THEN <<EmptyPart, DigitsPart(0 - n)>> ELSE <<DigitsPart(n)>>

\* parts = bar_type.replace('bar-', '').split('-'), line 184
SplitBar(bar_type) ==
    IF Len(bar_type) = 3
    THEN FieldParts(bar_type[1]) \o FieldParts(bar_type[2]) \o FieldParts(bar_type[3])
    ELSE FieldParts(bar_type[1]) \o FieldParts(bar_type[2])

\* int('') raises ValueError: some piece the taken branch converts is empty
ParseBarRaises(bar_type) ==
    LET parts == SplitBar(bar_type)
    IN  IF Len(parts) = 3
        THEN parts[1].empty \/ parts[2].empty \/ parts[3].empty
        ELSE IF Len(parts) >= 2
             THEN parts[1].empty \/ parts[2].empty
             ELSE FALSE

\* bar_type parsing, validate_pattern lines 183-199
ParseBar(bar_type) ==
    LET parts == SplitBar(bar_type)
    IN  IF Len(parts) = 3
        THEN [width |-> parts[1].n * GRID, height |-> parts[3].n * GRID]
        ELSE IF Len(parts) >= 2
             THEN [width |-> parts[1].n * GRID, height |-> parts[2].n * GRID]
             ELSE [width |-> GRID, height |-> GRID]

\* gap_type parsing, validate_pattern lines 202-206: int(float(mult) * 100)
GapAfter(gap_type) == (gap_type.mult4 * 100) \div 4

\* current_x at the time obstacle i (1-based) is converted
RECURSIVE CurrentX(_, _)
CurrentX(obstacles, i) ==
    IF i = 1 THEN START_X
    ELSE CurrentX(obstacles, i - 1)
         + ParseBar(obstacles[i - 1].bar_type).width
         + GapAfter(obstacles[i - 1].gap_type)

Platforms(obstacles) ==
    [i \in 1..Len(obstacles) |->
        [x |-> CurrentX(obstacles, i),
         y_top |-> GROUND_Y - ParseBar(obstacles[i].bar_type).height,
         width |-> ParseBar(obstacles[i].bar_type).width,
         height |-> ParseBar(obstacles[i].bar_type).height,
         is_killzone |-> obstacles[i].is_killzone]]

\* mutant: only the first point of the arc is compared with the ground
TrajectoryStartTouchesGround(trajectory) ==
    trajectory[1].y5 + 5 * PLAYER_HEIGHT >= 5 * GROUND_Y

\* mutant: the player's top edge, not its bottom edge, is compared with the ground
TrajectoryTopTouchesGround(trajectory) ==
    \E k \in 1..Len(trajectory) : trajectory[k].y5 >= 5 * GROUND_Y

\* validate_pattern lines 242-245: some trajectory point has the player's bottom on the ground
TrajectoryTouchesGround(trajectory) ==
    \E k \in 1..Len(trajectory) : trajectory[k].y5 + 5 * PLAYER_HEIGHT >= 5 * GROUND_Y

\* mutant: the jump behind a killzone starts at the killzone's own top
GroundPlatformAtKillzoneTop(prev) ==
    [x |-> prev.x, y_top |-> prev.y_top, width |-> prev.width, height |-> 0,
     is_killzone |-> FALSE]

GroundPlatform(prev) ==
    [x |-> prev.x, y_top |-> GROUND_Y, width |-> prev.width, height |-> 0,
     is_killzone |-> FALSE]

\* mutant: the loop goes on after a failure and reports the last one
RECURSIVE ValidateFromLastFailure(_, _, _)
ValidateFromLastFailure(platforms, i, touches_ground) ==
    IF i > Len(platforms)
    THEN [is_valid |-> TRUE, reason |-> "Pattern is valid", index |-> -1,
          touches_ground |-> touches_ground]
    ELSE IF platforms[i].is_killzone
    THEN ValidateFromLastFailure(platforms, i + 1, touches_ground)
    ELSE LET from == IF platforms[i - 1].is_killzone
                     THEN GroundPlatform(platforms[i - 1])
                     ELSE platforms[i - 1]
             r == can_reach_platform(from, platforms[i])
             rest == ValidateFromLastFailure(platforms, i + 1, touches_ground)
         IN  IF rest.is_valid /\ ~r.ok
             THEN [is_valid |-> FALSE, reason |-> r.reason, index |-> i - 1,
                   touches_ground |-> touches_ground]
             ELSE rest

\* the reachability loop of validate_pattern, at 1-based position i
\* (the obstacle index the code reports is i - 1)
RECURSIVE ValidateFrom(_, _, _)
ValidateFrom(platforms, i, touches_ground) ==
    IF i > Len(platforms)
    THEN [is_valid |-> TRUE, reason |-> "Pattern is valid", index |-> -1,
          touches_ground |-> touches_ground]
    ELSE IF platforms[i].is_killzone
    THEN ValidateFrom(platforms, i + 1, touches_ground)
    ELSE IF platforms[i - 1].is_killzone
    THEN LET r == can_reach_platform(GroundPlatform(platforms[i - 1]), platforms[i])
         IN  IF ~r.ok
             THEN [is_valid |-> FALSE, reason |-> "Not reachable from ground after lava",
                   index |-> i - 1, touches_ground |-> touches_ground]
             ELSE ValidateFrom(platforms, i + 1, TRUE)
    ELSE LET prev == platforms[i - 1]
             trajectory == calculate_jump_trajectory(prev.x + prev.width, prev.y_top)
             touches2 == touches_ground \/ TrajectoryTouchesGround(trajectory)
             r == can_reach_platform(prev, platforms[i])
         IN  IF ~r.ok
             THEN [is_valid |-> FALSE, reason |-> r.reason, index |-> i - 1,
                   touches_ground |-> touches2]
             ELSE ValidateFrom(platforms, i + 1, touches2)

\* no result: a ValueError left validate_pattern (and leaves its callers, which
\* do not catch it)
RaisedValueError ==
    [is_valid |-> FALSE, reason |-> "ValueError", index |-> -1, touches_ground |-> FALSE]

validate_pattern(pattern_data) ==
    IF pattern_data.obstacles = <<>>
    THEN [is_valid |-> FALSE, reason |-> "No obstacles in pattern", index |-> -1,
          touches_ground |-> FALSE]
    ELSE IF \E i \in 1..Len(pattern_data.obstacles) :
                ParseBarRaises(pattern_data.obstacles[i].bar_type)
    THEN RaisedValueError
    ELSE ValidateFrom(Platforms(pattern_data.obstacles), 2, FALSE)

\* ------------------------------------------ archive/pattern_generator_v3.py
\* MIN_SAFE_GAP = int(PLAYER_SPEED * 10)
MIN_SAFE_GAP == PLAYER_SPEED * 10
NARROW_WIDTH == 60

\* bar_type parsing of the archived validator: the second field is the height,
\* also for "bar-W-F-C"
V3ParseBar(parts) ==
    IF Len(parts) >= 2
    THEN [width |-> parts[1] * GRID, height |-> parts[2] * GRID]
    ELSE [width |-> GRID, height |-> GRID]

\* float(gap_type.replace('gap-', '')) raises ValueError on "gap-1.75-lava"
V3GapRaises(gap_type) == gap_type.hazard # "none"

\* gap_after = int(gap_mult * 100)
V3GapAfter(gap_type) == (gap_type.mult4 * 100) \div 4

Resolved(obstacles) ==
    [i \in 1..Len(obstacles) |->
        [width |-> V3ParseBar(obstacles[i].bar_type).width,
         height |-> V3ParseBar(obstacles[i].bar_type).height,
         gap_after |-> V3GapAfter(obstacles[i].gap_type),
         is_killzone |-> obstacles[i].is_killzone]]

\* a result of the archived validator; index, value and limit are the three
\* numbers its message prints ("Obstacle {index}: ... {value}px ... {limit}px")
V3Result(is_valid, reason, index, value, limit) ==
    [is_valid |-> is_valid, reason |-> reason, index |-> index,
     value |-> value, limit |-> limit, raised |-> FALSE]

V3Raised ==
    [is_valid |-> FALSE, reason |-> "ValueError", index |-> -1,
     value |-> 0, limit |-> 0, raised |-> TRUE]

V3Passed == V3Result(TRUE, "Pattern is valid", -1, 0, 0)

\* mutant: the first obstacle is compared with the climb limit
FirstObstacleOverClimbLimit(height) == height > MAX_CLIMB_HEIGHT

\* line 98: i == 0 and height > MAX_OBSTACLE_HEIGHT
FirstObstacleTooHigh(height) == height > MAX_OBSTACLE_HEIGHT

\* lines 113-115: the stack climb is rejected
ClimbTooHigh(height_diff) == height_diff > 0 /\ height_diff > MAX_CLIMB_HEIGHT

\* mutant: the test of the gap against MIN_SAFE_GAP is inverted
NarrowLandingUnsafeInverted(width, prev_gap) ==
    width < NARROW_WIDTH /\ prev_gap > MIN_SAFE_GAP

\* line 126: width < 60 and prev_gap < MIN_SAFE_GAP
NarrowLandingUnsafe(width, prev_gap) ==
    width < NARROW_WIDTH /\ prev_gap < MIN_SAFE_GAP

\* lines 130-135: vertical_diff = prev_top - obstacle_top, negative when jumping up
ForwardJumpTooHigh(vertical_diff) ==
    vertical_diff < 0 /\ 0 - vertical_diff > MAX_FORWARD_JUMP_HEIGHT

\* the body of the loop for obstacle i (1-based; the code's i is i - 1):
\* the failure it returns, or V3Passed when it falls through
V3CheckObstacle(resolved, i) ==
    LET obs == resolved[i]
    IN  IF i = 1
        THEN IF FirstObstacleTooHigh(obs.height)
             THEN V3Result(FALSE, "height exceeds max", 0, obs.height,
                           MAX_OBSTACLE_HEIGHT)
             ELSE V3Passed
        ELSE LET prev_obs == resolved[i - 1]
                 prev_gap == prev_obs.gap_after
                 height_diff == obs.height - prev_obs.height
                 vertical_diff == (GROUND_Y - prev_obs.height) - (GROUND_Y - obs.height)
             IN  IF prev_gap = 0
                 THEN IF ClimbTooHigh(height_diff)
                      THEN V3Result(FALSE, "stack climb exceeds max", i - 1,
                                    height_diff, MAX_CLIMB_HEIGHT)
                      ELSE V3Passed
                 ELSE IF prev_gap > MAX_JUMP_DISTANCE
                 THEN V3Result(FALSE, "gap exceeds max jump distance", i - 2,
                               prev_gap, MAX_JUMP_DISTANCE)
                 ELSE IF NarrowLandingUnsafe(obs.width, prev_gap)
                 THEN V3Result(FALSE, "gap less than min safe gap for narrow platform",
                               i - 2, prev_gap, MIN_SAFE_GAP)
                 ELSE IF ForwardJumpTooHigh(vertical_diff)
                 THEN V3Result(FALSE, "upward jump exceeds max forward jump", i - 1,
                               0 - vertical_diff, MAX_FORWARD_JUMP_HEIGHT)
                 ELSE V3Passed

\* for i, obs in enumerate(resolved), from 1-based position i on
RECURSIVE V3Walk(_, _)
V3Walk(resolved, i) ==
    IF i > Len(resolved) THEN V3Passed
    ELSE LET r == V3CheckObstacle(resolved, i)
         IN  IF ~r.is_valid THEN r ELSE V3Walk(resolved, i + 1)

\* validate_pattern of archive/pattern_generator_v3.py
v3_validate_pattern(pattern_data) ==
    IF pattern_data.obstacles = <<>>
    THEN V3Result(FALSE, "No obstacles in pattern", -1, 0, 0)
    ELSE IF \E i \in 1..Len(pattern_data.obstacles) :
                V3GapRaises(pattern_data.obstacles[i].gap_type)
    THEN V3Raised
    ELSE V3Walk(Resolved(pattern_data.obstacles), 1)

\* ------------------------------------------------------ pattern_library.py
\* mutant: the width is divided by the scale factor instead of multiplied
NewWidthDivides(original_width, scale_pct) == Max(2, (original_width * 100) \div scale_pct)

\* new_width = max(2, int(original_width * scale_factor)); the factor in percent
NewWidth(original_width, scale_pct) == Max(2, (original_width * scale_pct) \div 100)

ScaleObstacle(obs, scale_pct) ==
    LET parts == obs.bar_type
    IN  IF Len(parts) >= 2
        THEN IF Len(parts) = 3
             THEN [obs EXCEPT !.bar_type =
                       <<NewWidth(parts[1], scale_pct), parts[2], parts[3]>>]
             ELSE [obs EXCEPT !.bar_type = <<NewWidth(parts[1], scale_pct), parts[2]>>]
        ELSE obs

scale_pattern_widths(obstacles, scale_pct) ==
    [i \in 1..Len(obstacles) |-> ScaleObstacle(obstacles[i], scale_pct)]

\* mutant: the width is written to the input dictionary, not to a copy of it
ObstacleAliased(obs, scale_pct) == ScaleObstacle(obs, scale_pct)

\* scaled_obs = obs.copy(): the input dictionary after the loop body; every
\* assignment of the body goes to the copy
ObstacleAfterCopy(obs, scale_pct) == obs

\* the list passed to scale_pattern_widths, after the call
InputAfterScaling(obstacles, scale_pct) ==
    [i \in 1..Len(obstacles) |-> ObstacleAfterCopy(obstacles[i], scale_pct)]

MEDIUM_SCALE == 115
EASY_SCALE == 125

\* mutant: the medium variant is scaled by 1.25 and the easy one by 1.15
GenerateVariantsScalesSwapped(base_pattern) ==
    << [pattern |-> create_pattern(base_pattern.name, base_pattern.description,
                        base_pattern.obstacles,
                        base_pattern.metadata.type, base_pattern.metadata.rhythm),
        suffix |-> "_hard"],
       [pattern |-> create_pattern(base_pattern.name, base_pattern.description,
                        scale_pattern_widths(base_pattern.obstacles, EASY_SCALE),
                        base_pattern.metadata.type, base_pattern.metadata.rhythm),
        suffix |-> "_medium"],
       [pattern |-> create_pattern(base_pattern.name, base_pattern.description,
                        scale_pattern_widths(base_pattern.obstacles, MEDIUM_SCALE),
                        base_pattern.metadata.type, base_pattern.metadata.rhythm),
        suffix |-> "_easy"] >>

\* generate_difficulty_variants, given the base pattern pattern_func() returned
generate_difficulty_variants(base_pattern) ==
    << [pattern |-> create_pattern(base_pattern.name, base_pattern.description,
                        base_pattern.obstacles,
                        base_pattern.metadata.type, base_pattern.metadata.rhythm),
        suffix |-> "_hard"],
       [pattern |-> create_pattern(base_pattern.name, base_pattern.description,
                        scale_pattern_widths(base_pattern.obstacles, MEDIUM_SCALE),
                        base_pattern.metadata.type, base_pattern.metadata.rhythm),
        suffix |-> "_medium"],
       [pattern |-> create_pattern(base_pattern.name, base_pattern.description,
                        scale_pattern_widths(base_pattern.obstacles, EASY_SCALE),
                        base_pattern.metadata.type, base_pattern.metadata.rhythm),
        suffix |-> "_easy"] >>

\* the base pattern object after generate_difficulty_variants scaled its
\* obstacles list twice
InputAfterVariants(base_pattern) ==
    [base_pattern EXCEPT !.obstacles =
        InputAfterScaling(InputAfterScaling(base_pattern.obstacles, MEDIUM_SCALE),
                          EASY_SCALE)]

\* ----------------------------------------------------------------- main.py
\* mutant: the validity test of save_pattern is inverted
ValidationRejectsInverted(result) == result.is_valid

\* save_pattern line 57: validation failed, return False before anything is written
ValidationRejects(result) == ~result.is_valid

\* mutant: every obstacle is flagged, not only killzones
NeedsContinuousLavaAnyObstacle(obs, touches_ground) == ~touches_ground

\* save_pattern lines 64-67: the obstacle gets continuous_lava = True
NeedsContinuousLava(obs, touches_ground) == obs.is_killzone /\ ~touches_ground

UpdateLavaZones(obstacles, touches_ground) ==
    [i \in 1..Len(obstacles) |->
        IF NeedsContinuousLava(obstacles[i], touches_ground)
        THEN [obstacles[i] EXCEPT !.continuous_lava = TRUE]
        ELSE obstacles[i]]

\* the file system after json.dump(pattern) to OUTPUT_DIR/{filename}.json
WriteFile(fs, filename, content) ==
    [n \in (DOMAIN fs) \cup {filename} |-> IF n = filename THEN content ELSE fs[n]]

\* save_pattern(pattern, filename): return value, the pattern object and the
\* file system after the call
save_pattern(pattern_obj, filename, fs) ==
    LET result == validate_pattern(pattern_obj)
    IN  IF ValidationRejects(result)
        THEN [ret |-> FALSE, pattern |-> pattern_obj, files |-> fs, result |-> result]
        ELSE LET p2 == [pattern_obj EXCEPT !.obstacles =
                            UpdateLavaZones(pattern_obj.obstacles, result.touches_ground)]
             IN  [ret |-> TRUE, pattern |-> p2, files |-> WriteFile(fs, filename, p2),
                  result |-> result]

\* ------------------------------------------------------------------ state
VARIABLES
    pattern,        \* the pattern object under validation / export
    base,           \* the generator's base pattern the object was derived from
    created,        \* the pattern object exactly as it was created
    variant,        \* "_hard", "_medium" or "_easy"
    vres,           \* the result of the last validate_pattern call on the object
    ares,           \* the result of the archived analytic validate_pattern on the object
    lastSave,       \* the last save_pattern call: argument, file system before, return
    files,          \* OUTPUT_DIR: file name -> the pattern written there
    pc,             \* generate_all_patterns: "idle", "gen", "save" or "done"
    gen,            \* index of the generator being processed
    vi,             \* index of the variant being saved
    variants,       \* the list generate_difficulty_variants returned
    success_count,
    fail_count,
    callLog,        \* the save_pattern calls made so far, in order
    managers,       \* the ScoreManager instances of one player, by instance number
    save_file,      \* the content of data/save_data.json
    last_call,      \* the last ScoreManager method that returned, and its return value
    helper,         \* the last call of a helper function: name, arguments, result
    loop            \* the locals of a height-choosing generator inside its loop

patternVars == <<pattern, base, created, variant, vres, ares, lastSave>>
batchVars == <<pc, gen, vi, variants, success_count, fail_count, callLog>>
scoreVars == <<managers, save_file, last_call>>
extVars == <<scoreVars, helper, loop>>
vars == <<patternVars, files, batchVars, extVars>>

NotCalled ==
    [is_valid |-> FALSE, reason |-> "not called", index |-> -1, touches_ground |-> FALSE]

V3NotCalled == V3Result(FALSE, "not called", -1, 0, 0)

NoSave ==
    [called |-> FALSE, ret |-> FALSE, filename |-> "none", arg |-> plain_pattern("none", <<>>),
     filesBefore |-> <<>>]

EmptyFS == <<>>

\* a file left in OUTPUT_DIR by an earlier run
StalePattern == plain_pattern("stale", <<create_platform(2, 0, 7, "none")>>)
StaleFS == [n \in {"probe"} |-> StalePattern]

SaveNames == {"probe"}

BatchIdle ==
    /\ pc = "idle" /\ gen = 0 /\ vi = 0 /\ variants = <<>>
    /\ success_count = 0 /\ fail_count = 0 /\ callLog = <<>>

\* no save file on disk
NoFile == [kind |-> "missing", players |-> <<>>, high_score |-> 0]

NoCall == [op |-> "none", who |-> 0, arg |-> 0, value |-> 0, flag |-> FALSE]

NoHelperCall == [fn |-> "none", args |-> <<>>, result |-> <<>>]

NoLoop ==
    [fn |-> "none", i |-> 0, obstacles |-> <<>>, prev_height |-> 0,
     platform_count |-> 0, bar_count |-> 0, max_height_count |-> 0]

\* no ScoreManager constructed, no helper called, no generator running
ExtIdle ==
    /\ managers = <<>> /\ save_file = NoFile /\ last_call = NoCall
    /\ helper = NoHelperCall
    /\ loop = NoLoop

\* ------------------------------------- one pattern: validate, scale, save
Init ==
    /\ pattern \in { plain_pattern("probe", obs) : obs \in ObstacleLists }
    /\ base = pattern
    /\ created = pattern
    /\ variant = "_hard"
    /\ vres = NotCalled
    /\ ares = V3NotCalled
    /\ lastSave = NoSave
    /\ files \in {EmptyFS, StaleFS}
    /\ BatchIdle
    /\ ExtIdle

\* is_valid, error_msg, touches_ground = validate_pattern(pattern)
Validate ==
    /\ pc = "idle"
    /\ vres' = validate_pattern(pattern)
    /\ UNCHANGED <<pattern, base, created, variant, ares, lastSave, files, batchVars, extVars>>

\* save_pattern(pattern, filename)
SavePattern ==
    /\ pc = "idle"
    /\ \E filename \in SaveNames :
         LET r == save_pattern(pattern, filename, files)
         IN  /\ pattern' = r.pattern
             /\ files' = r.files
             /\ vres' = r.result
             /\ lastSave' = [called |-> TRUE, ret |-> r.ret, filename |-> filename,
                             arg |-> pattern, filesBefore |-> files]
    /\ UNCHANGED <<base, created, variant, ares, batchVars, extVars>>

\* the medium or easy entry of generate_difficulty_variants(base) replaces the
\* object; the variants are built from the base before anything is saved
MakeVariant ==
    /\ pc = "idle"
    /\ variant = "_hard"
    /\ ~lastSave.called
    /\ \E k \in {2, 3} :
         LET v == generate_difficulty_variants(pattern)[k]
         IN  /\ pattern' = v.pattern
             /\ created' = v.pattern
             /\ variant' = v.suffix
    /\ base' = InputAfterVariants(base)
    /\ vres' = NotCalled
    /\ lastSave' = NoSave
    /\ UNCHANGED <<ares, files, batchVars, extVars>>

Next == Validate \/ SavePattern \/ MakeVariant

Spec == Init /\ [][Next]_vars

\* --------------------------- the walk of validate_pattern on longer patterns
\* a killzone record whose bar has a height: validate_pattern reads is_killzone
\* and the bar independently of each other
TallKillzone == [create_killzone(2, 7) EXCEPT !.bar_type = <<2, 3>>]

\* a wide ground bar, a high bar behind a short gap, a narrow bar, the two
\* killzones, a floating platform 270px above the ground and one at 210px
WalkChoices ==
    { create_platform(4, 0, 7, "none"),
      create_platform(2, 3, 5, "none"),
      create_platform(1, 1, 7, "none"),
      create_killzone(2, 7),
      TallKillzone,
      create_floating_platform(4, 8, 9, 7, "none"),
      create_floating_platform(4, 4, 7, 7, "lava") }

WalkLen == MaxLen + 1

WalkLists == UNION { [1..n -> WalkChoices] : n \in 0..WalkLen }

InitWalk ==
    /\ pattern \in { plain_pattern("probe", obs) : obs \in WalkLists }
    /\ base = pattern
    /\ created = pattern
    /\ variant = "_hard"
    /\ vres = NotCalled
    /\ ares = V3NotCalled
    /\ lastSave = NoSave
    /\ files = EmptyFS
    /\ BatchIdle
    /\ ExtIdle

NextWalk == Validate \/ MakeVariant

SpecWalk == InitWalk /\ [][NextWalk]_vars

\* ------------------------------- validate_pattern on what the builders make
\* create_platform and create_floating_platform format any integers they are
\* given; with and without a hazard suffix
BuilderInts == {-1, 0, 3}

BuilderChoices ==
    { create_platform(w, h, 7, hz) :
          w \in {-1, 2}, h \in BuilderInts, hz \in {"none", "lava"} }
    \cup { create_floating_platform(w, 1, c, 7, "lava") : w \in {-1, 4}, c \in {-1, 3} }

BuilderLists == UNION { [1..n -> BuilderChoices] : n \in 0..MaxLen }

InitBuilders ==
    /\ pattern \in { plain_pattern("probe", obs) : obs \in BuilderLists }
    /\ base = pattern
    /\ created = pattern
    /\ variant = "_hard"
    /\ vres = NotCalled
    /\ ares = V3NotCalled
    /\ lastSave = NoSave
    /\ files = EmptyFS
    /\ BatchIdle
    /\ ExtIdle

SpecBuilders == InitBuilders /\ [][Validate]_vars

\* ------------------------------------- the two validators on one pattern
\* bars 30px and 120px wide, on the ground or 90px high, behind a stacked
\* successor, a 50px, a 175px or a 250px gap; a bar 120px high; a floating
\* platform; a gap with a hazard suffix; a killzone
AnalyticChoices ==
    { create_platform(wh[1], wh[2], g, "none") :
          wh \in {<<1, 0>>, <<4, 0>>, <<4, 3>>}, g \in {0, 2, 7, 10} }
    \cup { create_platform(4, 4, 7, "none"),
           create_floating_platform(4, 1, 3, 7, "none"),
           create_platform(4, 0, 7, "lava"),
           create_killzone(2, 7) }

AnalyticLists == UNION { [1..n -> AnalyticChoices] : n \in 0..MaxLen }

InitAnalytic ==
    /\ pattern \in { plain_pattern("probe", obs) : obs \in AnalyticLists }
    /\ base = pattern
    /\ created = pattern
    /\ variant = "_hard"
    /\ vres = NotCalled
    /\ ares = V3NotCalled
    /\ lastSave = NoSave
    /\ files = EmptyFS
    /\ BatchIdle
    /\ ExtIdle

\* is_valid, error_msg = validate_pattern(pattern) of the archived generator
ValidateAnalytic ==
    /\ pc = "idle"
    /\ ares' = v3_validate_pattern(pattern)
    /\ UNCHANGED <<pattern, base, created, variant, vres, lastSave, files, batchVars, extVars>>

NextAnalytic == ValidateAnalytic \/ Validate

SpecAnalytic == InitAnalytic /\ [][NextAnalytic]_vars

\* ------------------------------------------------- generate_all_patterns
\* the generators list, by the name each generator gives its pattern, and the
\* file-name stem generate_all_patterns derives from that name
GeneratorNames ==
    << "Steady Rhythm", "Wave Rider", "Quick Hops", "Rest and Run", "Stepped Ascent",
       "Zigzag Chaos", "Long Jumper", "Mixed Madness", "Kitchen Sink", "Obstacle Course" >>

FileStems ==
    << "steady_rhythm", "wave_rider", "quick_hops", "rest_and_run", "stepped_ascent",
       "zigzag_chaos", "long_jumper", "mixed_madness", "kitchen_sink", "obstacle_course" >>

NumGenerators == Len(GeneratorNames)

\* the description, type and rhythm hint each generator passes to create_pattern
\* (the two descriptions that report counts are cut before the counts)
GeneratorDescriptions ==
    << "Consistent platform hops at steady height",
       "Ride the wave - platforms rise and fall",
       "Fast-paced hopping on thin platforms - don't miss!",
       "Bursts of quick hops with rest platforms - catch your breath!",
       "Climb the steps, then drop!",
       "Unpredictable heights - stay focused!",
       "Maximum distance jumps - commit to the leap!",
       "Everything at once - ultimate variety!",
       "Everything! Platforms, bars, hazards",
       "Strategic sequences" >>

GeneratorTypes ==
    << "platform", "platform", "platform", "platform", "platform",
       "platform", "platform", "platform", "mixed", "mixed" >>

GeneratorRhythms ==
    << "4/4 steady", "Flowing waves", "Fast 8th notes", "Burst then rest",
       "Ascending steps", "Chaotic variation", "Extended jumps", "Total chaos",
       "Ultimate variety", "Varied sequences" >>

\* fname = base_name.lower().replace(" ", "_")... + difficulty_suffix
FileName(name, suffix) ==
    << FileStems[CHOOSE g \in 1..NumGenerators : GeneratorNames[g] = name], suffix >>

\* obstacle lists a generator may return: every generator may return a list
\* accepted at every difficulty; the odd-numbered ones may also return a list
\* accepted only when widened by 25%, the even-numbered ones a list rejected
\* at every difficulty
SampleAccepted ==
    << create_platform(4, 0, 7, "none"), create_platform(4, 1, 7, "none") >>
SampleEasyOnly ==
    << create_platform(4, 3, 5, "none"), create_platform(4, 0, 7, "lava") >>
SampleRejected ==
    << create_platform(2, 3, 5, "none"), create_platform(2, 0, 7, "none") >>

GeneratorSamples(g) ==
    IF g % 2 = 1 THEN {SampleAccepted, SampleEasyOnly}
    ELSE {SampleAccepted, SampleRejected}

\* mutant: the batch stops at the first pattern that fails validation
PcAfterSaveAbortsOnFailure(g, v, saved) ==
    IF ~saved THEN "done"
    ELSE IF v < 3 THEN "save" ELSE IF g < NumGenerators THEN "gen" ELSE "done"

\* where the two nested for loops are after save_pattern returned for variant v
\* of generator g
PcAfterSave(g, v, saved) ==
    IF v < 3 THEN "save" ELSE IF g < NumGenerators THEN "gen" ELSE "done"

PatternIdle ==
    /\ pattern = plain_pattern("none", <<>>)
    /\ base = pattern
    /\ created = pattern
    /\ variant = "_hard"
    /\ vres = NotCalled
    /\ ares = V3NotCalled
    /\ lastSave = NoSave

BatchInit ==
    /\ PatternIdle
    /\ files = EmptyFS
    /\ pc = "gen" /\ gen = 1 /\ vi = 0 /\ variants = <<>>
    /\ success_count = 0 /\ fail_count = 0 /\ callLog = <<>>
    /\ ExtIdle

\* variants = generate_difficulty_variants(gen)
GenerateVariants ==
    /\ pc = "gen"
    /\ \E obstacles \in GeneratorSamples(gen) :
         variants' = generate_difficulty_variants(
                         create_pattern(GeneratorNames[gen], GeneratorDescriptions[gen],
                                        obstacles, GeneratorTypes[gen],
                                        GeneratorRhythms[gen]))
    /\ vi' = 1
    /\ pc' = "save"
    /\ UNCHANGED <<patternVars, files, gen, success_count, fail_count, callLog, extVars>>

\* one iteration of the inner loop: save_pattern(pattern, fname) and the counters
SaveVariant ==
    /\ pc = "save"
    /\ LET v == variants[vi]
           r == save_pattern(v.pattern, FileName(v.pattern.name, v.suffix), files)
       IN  /\ files' = r.files
           /\ variants' = [variants EXCEPT ![vi].pattern = r.pattern]
           /\ success_count' = IF r.ret THEN success_count + 1 ELSE success_count
           /\ fail_count' = IF r.ret THEN fail_count ELSE fail_count + 1
           /\ callLog' = Append(callLog, [gen |-> gen, suffix |-> v.suffix, ret |-> r.ret])
           /\ pc' = PcAfterSave(gen, vi, r.ret)
           /\ vi' = IF vi < 3 THEN vi + 1 ELSE 0
           /\ gen' = IF vi < 3 THEN gen ELSE gen + 1
    /\ UNCHANGED <<patternVars, extVars>>

BatchNext == GenerateVariants \/ SaveVariant

SpecBatch == BatchInit /\ [][BatchNext]_vars

\* ------------------------------------------------ managers/score_manager.py
\* the player every modelled instance is constructed for
PlayerName == "Alice"

NumManagers == 2
MaxDistance == 300
MaxBonus == 13

\* save-file contents: no file, {"players": {...}} or the legacy {"high_score": n}
PlayersFile(players) == [kind |-> "players", players |-> players, high_score |-> 0]
LegacyFile(n) == [kind |-> "legacy", players |-> <<>>, high_score |-> n]

\* load_high_score: the player's entry, the legacy value, or 0
load_high_score(file, player) ==
    IF file.kind = "players"
    THEN IF player \in DOMAIN file.players THEN file.players[player] ELSE 0
    ELSE IF file.kind = "legacy" THEN file.high_score
    ELSE 0

\* ScoreManager.__init__
NewManager(file) ==
    [distance |-> 0, score |-> 0, landing_bonus |-> 0,
     high_score |-> load_high_score(file, PlayerName),
     pc |-> "idle", is_new |-> FALSE, data |-> <<>>]

\* mutant: the landing bonus is left out of the score
ScoreWithoutBonus(distance, landing_bonus) == distance \div 100

\* self.score = self.distance // 100 + self.landing_bonus
ScoreOf(distance, landing_bonus) == distance \div 100 + landing_bonus

\* bonus = 5 + combo_streak
LandingBonus(combo_streak) == 5 + combo_streak

\* save_high_score lines 48-59: the players table read from the file, a legacy
\* file migrated to the Guest player
ReadPlayers(file) ==
    IF file.kind = "players" THEN file.players
    ELSE IF file.kind = "legacy"
         THEN [n \in {"Guest"} |-> file.high_score]
         ELSE <<>>

\* save_high_score lines 61-68: the table with the player's entry set to the
\* instance's high_score, written to the file
WritePlayers(players, player, high_score) ==
    PlayersFile([n \in DOMAIN players \union {player} |->
                    IF n = player THEN high_score ELSE players[n]])

Returned(op, i, arg, value, flag) ==
    [op |-> op, who |-> i, arg |-> arg, value |-> value, flag |-> flag]

Idle(i) == i \in DOMAIN managers /\ managers[i].pc = "idle"

\* ScoreManager(player_name="Alice") replaces instance i
Construct(i) ==
    /\ Idle(i)
    /\ managers' = [managers EXCEPT ![i] = NewManager(save_file)]
    /\ last_call' = Returned("__init__", i, 0, 0, FALSE)
    /\ UNCHANGED <<patternVars, files, batchVars, save_file, helper, loop>>

\* update_distance(pixels)
UpdateDistance(i, pixels) ==
    /\ Idle(i)
    /\ managers[i].distance + pixels <= MaxDistance
    /\ managers[i].distance + pixels >= -MaxDistance
    /\ LET d == managers[i].distance + pixels
       IN  managers' = [managers EXCEPT
                           ![i].distance = d,
                           ![i].score = ScoreOf(d, managers[i].landing_bonus)]
    /\ last_call' = Returned("update_distance", i, pixels, 0, FALSE)
    /\ UNCHANGED <<patternVars, files, batchVars, save_file, helper, loop>>

\* add_landing_bonus(combo_streak)
AddLandingBonus(i, combo_streak) ==
    /\ Idle(i)
    /\ managers[i].landing_bonus + LandingBonus(combo_streak) <= MaxBonus
    /\ LET b == managers[i].landing_bonus + LandingBonus(combo_streak)
       IN  managers' = [managers EXCEPT
                           ![i].landing_bonus = b,
                           ![i].score = ScoreOf(managers[i].distance, b)]
    /\ last_call' = Returned("add_landing_bonus", i, combo_streak,
                             LandingBonus(combo_streak), FALSE)
    /\ UNCHANGED <<patternVars, files, batchVars, save_file, helper, loop>>

\* reset()
Reset(i) ==
    /\ Idle(i)
    /\ managers' = [managers EXCEPT
                       ![i].distance = 0, ![i].score = 0, ![i].landing_bonus = 0]
    /\ last_call' = Returned("reset", i, 0, 0, FALSE)
    /\ UNCHANGED <<patternVars, files, batchVars, save_file, helper, loop>>

\* check_and_save_high_score lines 105-108: the comparison and the update of
\* the instance's high_score
CheckHighScore(i) ==
    /\ Idle(i)
    /\ LET is_new == managers[i].score > managers[i].high_score
       IN  managers' = [managers EXCEPT
                           ![i].is_new = is_new,
                           ![i].high_score = IF is_new THEN managers[i].score ELSE @,
                           ![i].pc = "read"]
    /\ UNCHANGED <<patternVars, files, batchVars, save_file, last_call, helper, loop>>

\* save_high_score lines 48-59: the file is read
SaveRead(i) ==
    /\ i \in DOMAIN managers
    /\ managers[i].pc = "read"
    /\ managers' = [managers EXCEPT ![i].data = ReadPlayers(save_file), ![i].pc = "write"]
    /\ UNCHANGED <<patternVars, files, batchVars, save_file, last_call, helper, loop>>

\* save_high_score lines 61-68 and the return of check_and_save_high_score
SaveWrite(i) ==
    /\ i \in DOMAIN managers
    /\ managers[i].pc = "write"
    /\ save_file' = WritePlayers(managers[i].data, PlayerName, managers[i].high_score)
    /\ managers' = [managers EXCEPT ![i].data = <<>>, ![i].pc = "idle"]
    /\ last_call' = Returned("check_and_save_high_score", i, managers[i].score,
                             managers[i].high_score, managers[i].is_new)
    /\ UNCHANGED <<patternVars, files, batchVars, helper, loop>>

\* the save files an instance may find: none, a legacy file, a players file
\* without or with the player
InitialFiles ==
    { NoFile, LegacyFile(1), PlayersFile([n \in {"Guest"} |-> 2]),
      PlayersFile([n \in {PlayerName} |-> 1]) }

\* one game: a single instance, every distance and bonus
ScorePixels == {-50, 60, 150}
ComboStreaks == {0, 3}

InitScore ==
    /\ PatternIdle /\ files = EmptyFS /\ BatchIdle
    /\ helper = NoHelperCall /\ loop = NoLoop
    /\ save_file \in InitialFiles
    /\ managers = [i \in 1..1 |-> NewManager(save_file)]
    /\ last_call = NoCall

NextScore ==
    \E i \in 1..1 :
        \/ Construct(i)
        \/ \E pixels \in ScorePixels : UpdateDistance(i, pixels)
        \/ \E combo_streak \in ComboStreaks : AddLandingBonus(i, combo_streak)
        \/ Reset(i)
        \/ CheckHighScore(i)
        \/ SaveRead(i)
        \/ SaveWrite(i)

SpecScore == InitScore /\ [][NextScore]_vars

\* several instances of the same player on the same file, each playing games
\* of 100 pixels a step
SavePixels == {100}

InitSave ==
    /\ PatternIdle /\ files = EmptyFS /\ BatchIdle
    /\ helper = NoHelperCall /\ loop = NoLoop
    /\ save_file \in InitialFiles
    /\ managers = [i \in 1..NumManagers |-> NewManager(save_file)]
    /\ last_call = NoCall

NextSave ==
    \E i \in 1..NumManagers :
        \/ Construct(i)
        \/ \E pixels \in SavePixels : UpdateDistance(i, pixels)
        \/ Reset(i)
        \/ CheckHighScore(i)
        \/ SaveRead(i)
        \/ SaveWrite(i)

SpecSave == InitSave /\ [][NextSave]_vars

\* ------------------------------------------- obstacle_builders.py helpers
\* int(a / b) for b > 0: the quotient truncated toward zero
TruncDiv(a, b) == IF a >= 0 THEN a \div b ELSE -((-a) \div b)

Reversed(s) == [k \in 1..Len(s) |-> s[Len(s) + 1 - k]]

\* generators.obstacle_builders.wave_heights(count, low, high)
wave_heights(count, low, high) ==
    LET mid == count \div 2
        ascending == [k \in 1..mid |-> low + TruncDiv((high - low) * (k - 1), mid)]
        descending == Reversed(ascending)
        both == ascending \o descending
    IN  SubSeq(both, 1, IF count < Len(both) THEN count ELSE Len(both))

\* round(u * 4) for u = u100 / 100: no u100 lies halfway between two quarters
RoundToQuarters(u100) == (2 * u100 + 25) \div 50

\* random_gap(min_mult, max_mult) when random.uniform returned u100 / 100:
\* the multiplier of the gap string, in quarters
random_gap(u100) == RoundToQuarters(u100)

\* ------------------------------------- archive: rhythm and height helpers
\* mutant: the running height is not capped at end
RECURSIVE AscendingLoopUncapped(_, _, _, _, _)
AscendingLoopUncapped(heights, current, step, end, n) ==
    IF n = 0 THEN heights
    ELSE AscendingLoopUncapped(Append(heights, current), current + step, step, end, n - 1)

\* the for loop of ascending_heights, n iterations left
RECURSIVE AscendingLoop(_, _, _, _, _)
AscendingLoop(heights, current, step, end, n) ==
    IF n = 0 THEN heights
    ELSE LET next == IF current + step < end THEN current + step ELSE end
         IN  AscendingLoop(Append(heights, current), next, step, end, n - 1)

\* archive.pattern_generator_v3.ascending_heights(start, end, count)
ascending_heights(start, end, count) ==
    IF count = 1 THEN <<start>>
    ELSE LET step == Max(1, (end - start) \div Max(1, count - 1))
         IN  AscendingLoop(<<>>, start, step, end, count)

\* archive.pattern_generator_v3.descending_heights(start, end, count)
descending_heights(start, end, count) == Reversed(ascending_heights(end, start, count))

\* ------------------------------------------ the game's bar_type resolver
GAME_GROUND_Y == 750
PLAYER_SIZE == 40
BASE_WIDTH == 30
BASE_HEIGHT == 30

\* BarTypeManager.get_bar_dimensions on a dynamic bar_type, no predefined
\* type of that name: the parts behind "bar", an empty part making float() fail
get_bar_dimensions(bar_type) ==
    LET parts == SplitBar(bar_type)
    IN  IF Len(parts) = 3 /\ \A k \in 1..3 : ~parts[k].empty
        THEN [found |-> TRUE, width |-> BASE_WIDTH * parts[1].n,
              height |-> BASE_HEIGHT * parts[3].n, y_offset |-> BASE_HEIGHT * parts[2].n]
        ELSE IF Len(parts) = 2 /\ \A k \in 1..2 : ~parts[k].empty
        THEN [found |-> TRUE, width |-> BASE_WIDTH * parts[1].n,
              height |-> BASE_HEIGHT * parts[2].n, y_offset |-> 0]
        ELSE [found |-> FALSE, width |-> 0, height |-> 0, y_offset |-> 0]

\* PatternManager._resolve_bar_types: the dimensions, or 30 x 30 on the ground
resolve_bar_type(bar_type) ==
    LET dimensions == get_bar_dimensions(bar_type)
    IN  IF dimensions.found
        THEN [width |-> dimensions.width, height |-> dimensions.height,
              y_offset |-> dimensions.y_offset]
        ELSE [width |-> 30, height |-> 30, y_offset |-> 0]

\* Obstacle.__init__ for a normal obstacle: width and the y of its top edge
Obstacle(height, width, y_offset) ==
    [width |-> width, height |-> height, y_offset |-> y_offset,
     y |-> GAME_GROUND_Y + PLAYER_SIZE - height - y_offset]

\* the height of the obstacle's top edge above the line the player walks on
ObstacleTopAboveGround(obstacle) == GAME_GROUND_Y + PLAYER_SIZE - obstacle.y

\* ------------------------------------------------------ helper functions
HelperCall(fn, args, result) == [fn |-> fn, args |-> args, result |-> result]

HelperStartX == {800, 920}
HelperStartY == {0, 300, 480, 510, 570, 600}

\* trajectory = calculate_jump_trajectory(start_x, start_y)
JumpTrajectory ==
    /\ \E start_x \in HelperStartX, start_y \in HelperStartY :
         helper' = HelperCall("calculate_jump_trajectory", <<start_x, start_y>>,
                              calculate_jump_trajectory(start_x, start_y))
    /\ UNCHANGED <<patternVars, files, batchVars, scoreVars, loop>>

HelperWidths == {30, 120}
HelperTops == {480, 540, 570, 600}
HelperGaps == {0, 100, 125, 200, 225, 250}

HelperPlatform(x, y_top, width) ==
    [x |-> x, y_top |-> y_top, width |-> width, height |-> GROUND_Y - y_top,
     is_killzone |-> FALSE]

\* can_reach, reason = can_reach_platform(prev, next)
CanReach ==
    /\ \E w1 \in HelperWidths, w2 \in HelperWidths, t1 \in HelperTops,
          t2 \in HelperTops, gap \in HelperGaps :
         LET prev == HelperPlatform(START_X, t1, w1)
             next == HelperPlatform(START_X + w1 + gap, t2, w2)
         IN  helper' = HelperCall("can_reach_platform", [prev |-> prev, next |-> next],
                                  can_reach_platform(prev, next))
    /\ UNCHANGED <<patternVars, files, batchVars, scoreVars, loop>>

HelperCounts == 1..(2 * MaxLen + 2)
HelperHeights == 0..4

\* heights = wave_heights(count, low, high)
WaveHeights ==
    /\ \E count \in HelperCounts, low \in HelperHeights, high \in HelperHeights :
         /\ low <= high
         /\ helper' = HelperCall("wave_heights", <<count, low, high>>,
                                 wave_heights(count, low, high))
    /\ UNCHANGED <<patternVars, files, batchVars, scoreVars, loop>>

\* heights = ascending_heights(start, end, count)
AscendingHeights ==
    /\ \E count \in HelperCounts, start \in HelperHeights, end \in HelperHeights :
         /\ start <= end
         /\ helper' = HelperCall("ascending_heights", <<start, end, count>>,
                                 ascending_heights(start, end, count))
    /\ UNCHANGED <<patternVars, files, batchVars, scoreVars, loop>>

\* heights = descending_heights(start, end, count)
DescendingHeights ==
    /\ \E count \in HelperCounts, start \in HelperHeights, end \in HelperHeights :
         /\ start >= end
         /\ helper' = HelperCall("descending_heights", <<start, end, count>>,
                                 descending_heights(start, end, count))
    /\ UNCHANGED <<patternVars, files, batchVars, scoreVars, loop>>

\* bounds of random_gap in hundredths: the default 1.75 and 2.25 the
\* generators pass, and bounds that are no multiples of 0.25
GapBounds100 == {175, 180, 190, 200, 225}

\* gap = random_gap(min_mult, max_mult), random.uniform drawing u100 / 100
RandomGap ==
    /\ \E min100 \in GapBounds100, max100 \in GapBounds100 :
         /\ min100 <= max100
         /\ \E u100 \in min100..max100 :
              helper' = HelperCall("random_gap", <<min100, max100>>, random_gap(u100))
    /\ UNCHANGED <<patternVars, files, batchVars, scoreVars, loop>>

ResolverInts == 0..3

\* the bar_types create_platform and create_floating_platform emit
EmittedBars ==
    { create_platform(w, h, 8, "none") : w \in ResolverInts, h \in ResolverInts }
    \cup { create_floating_platform(w, f, c, 8, "none") :
               w \in ResolverInts, f \in ResolverInts, c \in ResolverInts }

\* one emitted bar_type resolved by validate_pattern and by the game
ResolveBar ==
    /\ \E obs \in EmittedBars :
         LET r == resolve_bar_type(obs.bar_type)
         IN  helper' = HelperCall("resolve", obs.bar_type,
                          [validator |-> ParseBar(obs.bar_type),
                           game |-> Obstacle(r.height, r.width, r.y_offset)])
    /\ UNCHANGED <<patternVars, files, batchVars, scoreVars, loop>>

InitHelpers ==
    /\ PatternIdle /\ files = EmptyFS /\ BatchIdle
    /\ managers = <<>> /\ save_file = NoFile /\ last_call = NoCall
    /\ loop = NoLoop
    /\ helper = NoHelperCall

NextHelpers ==
    \/ JumpTrajectory
    \/ CanReach
    \/ WaveHeights
    \/ AscendingHeights
    \/ DescendingHeights
    \/ RandomGap
    \/ ResolveBar

SpecHelpers == InitHelpers /\ [][NextHelpers]_vars

\* ------------------------------- pattern_library.py: height-choosing loops
Min(a, b) == IF a < b THEN a ELSE b

\* the generators that choose each height from the previous one
ZigzagGenerators == {"zigzag_chaos_v4", "mixed_madness_v4"}
KitchenSink == "kitchen_sink_v4"

\* width of the first platform: random.randint(4, 6), kitchen sink randint(5, 7)
FirstWidths(fn) == IF fn = KitchenSink THEN {5, 7} ELSE {4, 6}

\* the hazards drawn for a gap; the width 3 and the gap "gap-2.0" stand for
\* the other draws, which play no part in the heights
LoopHazards == {"none", "lava"}

\* random.randint(max(1, prev_height - 1), min(4, prev_height + 2))
SafeHeights(prev_height) == Max(1, prev_height - 1)..Min(4, prev_height + 2)

\* obstacles.append(create_platform(random.randint(..), 0, "gap-2.0")) and the
\* locals set before the loop
StartGenerator ==
    /\ loop.fn = "none"
    /\ \E fn \in ZigzagGenerators \cup {KitchenSink} : \E w \in FirstWidths(fn) :
         loop' = [fn |-> fn, i |-> 0,
                  obstacles |-> <<create_platform(w, 0, 8, "none")>>,
                  prev_height |-> 2, platform_count |-> 0, bar_count |-> 0,
                  max_height_count |-> 0]
    /\ UNCHANGED <<patternVars, files, batchVars, scoreVars, helper>>

\* zigzag_chaos_v4 / mixed_madness_v4: the height drawn in iteration i of the
\* heights loop and the platform built from it
ZigzagStep ==
    /\ loop.fn \in ZigzagGenerators
    /\ loop.i < MaxLen
    /\ \E height \in SafeHeights(loop.prev_height), w \in {3},
          gap \in {8}, gap_hazard \in LoopHazards :
         loop' = [loop EXCEPT
                     !.i = @ + 1,
                     !.prev_height = height,
                     !.obstacles = Append(@, create_platform(w, height, gap, gap_hazard))]
    /\ UNCHANGED <<patternVars, files, batchVars, scoreVars, helper>>

\* the obstacle kinds the distribution rule of kitchen_sink_v4 allows
KitchenKinds(platform_count, bar_count) ==
    LET total == platform_count + bar_count
        platform_below_30 == total = 0 \/ 100 * platform_count < 30 * total
        platform_below_35 == total = 0 \/ 100 * platform_count < 35 * total
        bar_below_30 == total = 0 \/ 100 * bar_count < 30 * total
        bar_below_35 == total = 0 \/ 100 * bar_count < 35 * total
    IN  IF platform_below_30 \/ (platform_below_35 /\ ~bar_below_30)
        THEN {"floating"}
        ELSE IF bar_below_30 \/ (bar_below_35 /\ ~platform_below_30)
        THEN {"bar"}
        ELSE {"floating", "bar"}

\* the heights iteration i (0-based) of kitchen_sink_v4 may choose
KitchenHeights(i, prev_height, max_height_count) ==
    SafeHeights(prev_height)
        \cup (IF 10 * max_height_count < i + 1 THEN {4} ELSE {})

\* one iteration of the loop of kitchen_sink_v4
KitchenStep ==
    /\ loop.fn = KitchenSink
    /\ loop.i < MaxLen
    /\ \E height \in KitchenHeights(loop.i, loop.prev_height, loop.max_height_count),
          w \in {3}, gap \in {8}, gap_hazard \in LoopHazards,
          kind \in KitchenKinds(loop.platform_count, loop.bar_count),
          thickness \in {2, 3} :
         loop' = [loop EXCEPT
                     !.i = @ + 1,
                     !.prev_height = height,
                     !.max_height_count = IF height = 4 THEN @ + 1 ELSE @,
                     !.platform_count = IF kind = "floating" THEN @ + 1 ELSE @,
                     !.bar_count = IF kind = "bar" THEN @ + 1 ELSE @,
                     !.obstacles =
                         Append(@, IF kind = "floating"
                                   THEN create_floating_platform(
                                            w, height, height + thickness, gap, gap_hazard)
                                   ELSE create_platform(w, height, gap, gap_hazard))]
    /\ UNCHANGED <<patternVars, files, batchVars, scoreVars, helper>>

InitLoops ==
    /\ PatternIdle /\ files = EmptyFS /\ BatchIdle
    /\ managers = <<>> /\ save_file = NoFile /\ last_call = NoCall
    /\ helper = NoHelperCall
    /\ loop = NoLoop

NextLoops == StartGenerator \/ ZigzagStep \/ KitchenStep

SpecLoops == InitLoops /\ [][NextLoops]_vars

\* ------------------------------------------------ vocabulary of the claims
Validated == vres # NotCalled
Accepted == Validated /\ vres.is_valid

PlatformsNow == Platforms(pattern.obstacles)

\* gap in front of obstacle i (1-based, i >= 2), in pixels
GapBefore(obstacles, i) == GapAfter(obstacles[i - 1].gap_type)

\* the transitions validate_pattern checks, and where each takes off
ValidatedTransitions(platforms) ==
    { i \in 2..Len(platforms) : ~platforms[i].is_killzone }

Takeoff(platforms, i) ==
    IF platforms[i - 1].is_killzone THEN GroundPlatform(platforms[i - 1])
    ELSE platforms[i - 1]

\* the smallest y (highest position) of the player's bottom edge on an arc, in fifths
PeakBottom5(trajectory) ==
    CHOOSE m \in { trajectory[k].y5 + 5 * PLAYER_HEIGHT : k \in 1..Len(trajectory) } :
        \A k \in 1..Len(trajectory) : m <= trajectory[k].y5 + 5 * PLAYER_HEIGHT

JumpableInHeight(platforms, i) ==
    LET from == Takeoff(platforms, i)
        arc == calculate_jump_trajectory(from.x + from.width, from.y_top)
    IN  5 * platforms[i].y_top >= PeakBottom5(arc) - 5 * LANDING_TOLERANCE

\* C1: in an accepted pattern the landing surface of every validated target is
\* no higher than the peak of the player's bottom edge on the arc from the
\* takeoff surface, less the 5px tolerance
C1_AcceptedIsJumpableInHeight ==
    Accepted =>
        \A i \in ValidatedTransitions(PlatformsNow) : JumpableInHeight(PlatformsNow, i)

WithinAnalyticThresholds(platforms, obstacles, i) ==
    LET gap == GapBefore(obstacles, i)
        rise == platforms[i].height - platforms[i - 1].height
    IN  IF gap = 0
        THEN rise <= MAX_CLIMB_HEIGHT
        ELSE gap <= MAX_JUMP_DISTANCE /\ rise <= MAX_FORWARD_JUMP_HEIGHT

\* C3: every transition of an accepted pattern is within the analytic
\* thresholds (stacked rise <= 58px; gap <= 225px and upward delta <= 39px)
C3_AcceptedWithinThresholds ==
    Accepted =>
        \A i \in 2..Len(pattern.obstacles) :
            (~PlatformsNow[i].is_killzone /\ ~PlatformsNow[i - 1].is_killzone)
                => WithinAnalyticThresholds(PlatformsNow, pattern.obstacles, i)

\* C4: every obstacle of an accepted pattern, and of a written one, has a
\* landing surface at most max_obstacle_height (98px) above the ground
C4_AcceptedHeightsBounded ==
    Accepted =>
        \A i \in 1..Len(pattern.obstacles) : PlatformsNow[i].height <= MAX_OBSTACLE_HEIGHT

StackedRiseTooHigh(platforms, obstacles, i) ==
    /\ GapBefore(obstacles, i) = 0
    /\ platforms[i].height - platforms[i - 1].height > MAX_CLIMB_HEIGHT

\* C9: a pattern with a zero-gap transition that rises more than
\* max_climb_height (58px) is rejected
C9_StackedClimbRejected ==
    (Validated /\ \E i \in 2..Len(pattern.obstacles) :
                     StackedRiseTooHigh(PlatformsNow, pattern.obstacles, i))
        => ~vres.is_valid

\* C2: save_pattern writes {filename}.json and returns True exactly when
\* validate_pattern accepts the pattern it was given; otherwise it returns
\* False and the output directory is as it was before the call
C2_SaveIffValid ==
    lastSave.called =>
        IF validate_pattern(lastSave.arg).is_valid
        THEN /\ lastSave.ret
             /\ lastSave.filename \in DOMAIN files
             /\ files[lastSave.filename] = pattern
        ELSE /\ ~lastSave.ret
             /\ files = lastSave.filesBefore

\* an invalid pattern was passed to save_pattern while a file of that name existed
C2_Witness ==
    /\ lastSave.called
    /\ ~validate_pattern(lastSave.arg).is_valid
    /\ lastSave.filename \in DOMAIN lastSave.filesBefore

\* C5: a medium or easy variant of a base pattern that validate_pattern
\* accepts is accepted too
C5_WideningKeepsValid ==
    (variant # "_hard" /\ Validated /\ validate_pattern(base).is_valid) => vres.is_valid

\* a widened variant of an accepted base has been validated and differs from the base
C5_Witness ==
    /\ variant = "_easy"
    /\ Validated
    /\ validate_pattern(base).is_valid
    /\ \E i \in 1..Len(pattern.obstacles) :
           /\ i >= 2
           /\ pattern.obstacles[i].bar_type # base.obstacles[i].bar_type

WithoutLavaFlag(obs) == [obs EXCEPT !.continuous_lava = FALSE]

\* C8 as stated: after save_pattern the pattern object is exactly as created
C8_NoMutation ==
    lastSave.called => pattern = created

\* C8 amended: save_pattern changes nothing but the continuous_lava key, and
\* sets it exactly on the killzone obstacles of an accepted pattern whose
\* touches_ground is false
C8_OnlyLavaFlagOnKillzones ==
    lastSave.called =>
        /\ pattern.name = created.name
        /\ pattern.metadata.length = created.metadata.length
        /\ Len(pattern.obstacles) = Len(created.obstacles)
        /\ \A i \in 1..Len(created.obstacles) :
              /\ WithoutLavaFlag(pattern.obstacles[i]) = created.obstacles[i]
              /\ pattern.obstacles[i].continuous_lava
                    <=> (/\ created.obstacles[i].is_killzone
                         /\ lastSave.ret
                         /\ ~vres.touches_ground)

\* save_pattern has flagged a killzone of an accepted pattern
C8_Witness ==
    /\ lastSave.called
    /\ lastSave.ret
    /\ \E i \in 1..Len(pattern.obstacles) : pattern.obstacles[i].continuous_lava
    /\ \E i \in 1..Len(pattern.obstacles) : ~pattern.obstacles[i].is_killzone

IsGroundBar(obs) == Len(obs.bar_type) = 2 /\ ~obs.is_killzone

AllGround(obstacles) ==
    /\ Len(obstacles) >= 1
    /\ \A i \in 1..Len(obstacles) :
          /\ IsGroundBar(obstacles[i])
          /\ ParseBar(obstacles[i].bar_type).height <= MAX_OBSTACLE_HEIGHT
          /\ GapAfter(obstacles[i].gap_type) <= MAX_JUMP_DISTANCE

\* C10 as stated: every all-ground pattern with gaps <= 225px and heights
\* <= 98px is accepted and touches the ground, whatever the widths
C10_AllGroundAccepted ==
    (Validated /\ AllGround(pattern.obstacles))
        => (vres.is_valid /\ vres.touches_ground)

\* the gap in front of every bar after the first plus that bar's width is at
\* least 252px (42 steps of player_speed)
WideLandings(obstacles) ==
    \A i \in 2..Len(obstacles) :
        GapBefore(obstacles, i) + ParseBar(obstacles[i].bar_type).width
            >= 42 * PLAYER_SPEED

\* C10 amended: an all-ground pattern of at least two bars whose landings
\* are wide enough is accepted and touches the ground
C10_WideAllGroundAccepted ==
    (/\ Validated
     /\ AllGround(pattern.obstacles)
     /\ Len(pattern.obstacles) >= 2
     /\ WideLandings(pattern.obstacles))
        => (vres.is_valid /\ vres.touches_ground)

\* a validated all-ground pattern with a step down onto a wide landing
C10_Witness ==
    /\ Validated
    /\ AllGround(pattern.obstacles)
    /\ Len(pattern.obstacles) >= 2
    /\ WideLandings(pattern.obstacles)
    /\ PlatformsNow[2].height < PlatformsNow[1].height

Suffixes == <<"_hard", "_medium", "_easy">>

\* the save_pattern calls of a complete batch, in order
ExpectedCalls ==
    [k \in 1..(3 * NumGenerators) |->
        [gen |-> ((k - 1) \div 3) + 1, suffix |-> Suffixes[((k - 1) % 3) + 1]]]

CallAt(k) == [gen |-> callLog[k].gen, suffix |-> callLog[k].suffix]

\* C6: the save_pattern calls made so far are a prefix of the 30 calls in
\* generator and hard, medium, easy order, each counted once as a success or a
\* failure; each variant of the current generator was accepted or rejected on
\* its own validation; and the batch ends only after all 30 calls
C6_BatchNeverAborts ==
    /\ Len(callLog) <= 3 * NumGenerators
    /\ \A k \in 1..Len(callLog) : CallAt(k) = ExpectedCalls[k]
    /\ success_count + fail_count = Len(callLog)
    /\ success_count = Cardinality({ k \in 1..Len(callLog) : callLog[k].ret })
    /\ pc = "save" =>
          \A k \in 1..(vi - 1) :
              callLog[Len(callLog) - (vi - 1) + k].ret
                  = validate_pattern(variants[k].pattern).is_valid
    /\ pc = "done" => success_count + fail_count = 3 * NumGenerators

\* the batch is complete and a rejected variant was followed by an accepted one
C6_Witness ==
    /\ pc = "done"
    /\ Len(callLog) = 3 * NumGenerators
    /\ \E k \in 1..(Len(callLog) - 1) : ~callLog[k].ret /\ callLog[k + 1].ret

\* ------------------------------------------------------------ touches_ground
IsFloating(obs) == Len(obs.bar_type) = 3 /\ ~obs.is_killzone

AllFloating(obstacles) ==
    Len(obstacles) >= 1 /\ \A i \in 1..Len(obstacles) : IsFloating(obstacles[i])

\* on the arc from prev the player meets the landing condition of next at some
\* point up to which its bottom edge has stayed above ground level
LandsBeforeGround(prev, next) ==
    LET arc == calculate_jump_trajectory(prev.x + prev.width, prev.y_top)
    IN  \E k \in 1..Len(arc) :
            /\ HorizontalOverlap(arc[k].x, next.x, next.x + next.width)
            /\ LandingTest(arc[k].y5 + 5 * PLAYER_HEIGHT, next.y_top)
            /\ \A j \in 1..k : arc[j].y5 + 5 * PLAYER_HEIGHT < 5 * GROUND_Y

\* C11 as stated: an accepted pattern of floating platforms only, in which
\* every jump lands before the player's bottom edge is down at ground level,
\* has touches_ground = false
C11_LandingBeforeGroundNeverTouches ==
    (/\ Accepted
     /\ AllFloating(pattern.obstacles)
     /\ \A i \in 2..Len(pattern.obstacles) :
            LandsBeforeGround(PlatformsNow[i - 1], PlatformsNow[i]))
        => ~vres.touches_ground

\* the arc simulated from a surface at start_y, followed to its last point,
\* has a point with the player's bottom edge at or below ground level
ArcBottomReachesGround(start_y) ==
    \E k \in 1..Len(ArcFromZero[start_y]) :
        ArcFromZero[start_y][k].y5 + 5 * PLAYER_HEIGHT >= 5 * GROUND_Y

\* C11 amended: for an accepted pattern of floating platforms only,
\* touches_ground is true exactly when the arc simulated from some platform
\* that has a successor, followed past any landing to its last point, has a
\* point with the player's bottom edge at or below ground level
C11_TouchesIffSomeArcReachesGround ==
    (Accepted /\ AllFloating(pattern.obstacles))
        => (vres.touches_ground
               <=> \E i \in 1..(Len(pattern.obstacles) - 1) :
                       ArcBottomReachesGround(PlatformsNow[i].y_top))

\* an accepted pattern of at least two floating platforms that never touches
\* the ground
C11_Witness ==
    /\ Accepted
    /\ AllFloating(pattern.obstacles)
    /\ Len(pattern.obstacles) >= 2
    /\ ~vres.touches_ground

\* ------------------------------------------------- the analytic validator
\* the archived validator was called and returned a verdict
AnalyticReturned == ares # V3NotCalled /\ ~ares.raised

ResolvedNow == Resolved(pattern.obstacles)

\* C12 as stated: a pattern with an obstacle narrower than 60px whose own
\* gap_after is non-zero and below min_safe_gap is rejected
C12_NarrowWithShortGapAfterRejected ==
    (AnalyticReturned
     /\ \E i \in 1..Len(pattern.obstacles) :
            /\ ResolvedNow[i].width < NARROW_WIDTH
            /\ ResolvedNow[i].gap_after # 0
            /\ ResolvedNow[i].gap_after < MIN_SAFE_GAP)
        => ~ares.is_valid

\* obstacle i (1-based, i >= 2) is narrower than 60px and the gap in front of
\* it is non-zero and below min_safe_gap
NarrowBehindShortGap(resolved, i) ==
    /\ resolved[i].width < NARROW_WIDTH
    /\ resolved[i - 1].gap_after # 0
    /\ resolved[i - 1].gap_after < MIN_SAFE_GAP

\* C12 amended: a pattern with an obstacle narrower than 60px behind a
\* non-zero gap below min_safe_gap is rejected, at that obstacle or earlier;
\* when it is rejected there, the reason names the unsafe gap for a narrow
\* platform and the obstacle that owns the gap
C12_NarrowBehindShortGapRejected ==
    AnalyticReturned =>
        \A i \in 2..Len(pattern.obstacles) :
            NarrowBehindShortGap(ResolvedNow, i) =>
                /\ ~ares.is_valid
                /\ V3Walk(SubSeq(ResolvedNow, 1, i - 1), 1).is_valid =>
                      /\ ares.reason = "gap less than min safe gap for narrow platform"
                      /\ ares.index = i - 2
                      /\ ares.value = ResolvedNow[i - 1].gap_after

\* a 30px bar behind a 50px gap was rejected for the unsafe gap; the bar's
\* own gap_after is not short
C12_Witness ==
    /\ AnalyticReturned
    /\ Len(pattern.obstacles) = 2
    /\ NarrowBehindShortGap(ResolvedNow, 2)
    /\ ResolvedNow[2].gap_after >= MIN_SAFE_GAP
    /\ ares.reason = "gap less than min safe gap for narrow platform"

NoHazardSuffix(obstacles) ==
    \A i \in 1..Len(obstacles) : obstacles[i].gap_type.hazard = "none"

\* C13: on a pattern without hazard suffixes the trajectory validator and the
\* analytic validator return the same is_valid
C13_ValidatorsAgree ==
    (Validated /\ AnalyticReturned /\ NoHazardSuffix(pattern.obstacles))
        => (vres.is_valid <=> ares.is_valid)

\* ------------------------------------------------- the walk of the validator
\* the arc of a jump from ground level, the takeoff edge at x = 0, meets the
\* landing condition of a platform gap pixels ahead
GroundJumpReaches(gap, platform_top, platform_width) ==
    platform_intersects_trajectory(ArcFromZero[GROUND_Y], gap, platform_top,
                                   platform_width)

\* the walk of validate_pattern got as far as position i (1-based)
WalkReached(result, i) == result.is_valid \/ result.index >= i - 1

\* C14: a killzone is never the failing obstacle; the obstacle behind a
\* killzone is decided by the jump from ground level over the killzone's gap
\* alone, and once it is passed touches_ground is true
C14_KillzoneResetsBaseline ==
    Validated =>
        \A i \in 2..Len(pattern.obstacles) :
            /\ PlatformsNow[i].is_killzone => vres.index # i - 1
            /\ (/\ PlatformsNow[i - 1].is_killzone
                /\ ~PlatformsNow[i].is_killzone
                /\ WalkReached(vres, i))
                  => IF GroundJumpReaches(GapBefore(pattern.obstacles, i),
                                          PlatformsNow[i].y_top, PlatformsNow[i].width)
                     THEN vres.index # i - 1 /\ vres.touches_ground
                     ELSE /\ vres.index = i - 1
                          /\ vres.reason = "Not reachable from ground after lava"

\* an accepted pattern in which a killzone 90px high, behind an earlier
\* obstacle, is followed by a narrow bar
C14_Witness ==
    /\ Accepted
    /\ Len(pattern.obstacles) = 3
    /\ pattern.obstacles[2] = TallKillzone
    /\ ~PlatformsNow[3].is_killzone
    /\ PlatformsNow[3].width < NARROW_WIDTH
    /\ PlatformsNow[1].height > 0

\* the transition into position i (1-based) fails
TransitionFails(platforms, i) ==
    /\ ~platforms[i].is_killzone
    /\ ~can_reach_platform(Takeoff(platforms, i), platforms[i]).ok

FailingTransitions(platforms) ==
    { i \in 2..Len(platforms) : TransitionFails(platforms, i) }

FirstFailing(platforms) ==
    CHOOSE i \in FailingTransitions(platforms) :
        \A j \in FailingTransitions(platforms) : i <= j

Prefix(pattern_data, n) ==
    plain_pattern(pattern_data.name, SubSeq(pattern_data.obstacles, 1, n))

\* C15: the reported index is that of the first failing transition, and the
\* result is the one the pattern cut off behind that obstacle gets; with no
\* failing transition the result is (True, "Pattern is valid", touches_ground)
C15_StopsAtFirstFailure ==
    (Validated /\ pattern.obstacles # <<>>) =>
        IF FailingTransitions(PlatformsNow) = {}
        THEN vres.is_valid /\ vres.reason = "Pattern is valid"
        ELSE /\ ~vres.is_valid
             /\ vres.index = FirstFailing(PlatformsNow) - 1
             /\ vres = validate_pattern(Prefix(pattern, FirstFailing(PlatformsNow)))

\* a rejected pattern with two failing transitions
C15_Witness ==
    /\ Validated
    /\ Cardinality(FailingTransitions(PlatformsNow)) >= 2
    /\ vres.index = 1

\* ------------------------------------------- the analytic validator's rules
\* C16: a first obstacle higher than max_obstacle_height is rejected at
\* obstacle 0 for its height; a pattern of one obstacle is rejected for
\* nothing else, whatever its width and gap
C16_FirstObstacleHeightOnly ==
    (AnalyticReturned /\ pattern.obstacles # <<>>) =>
        /\ ResolvedNow[1].height > MAX_OBSTACLE_HEIGHT =>
              /\ ~ares.is_valid
              /\ ares.index = 0
              /\ ares.reason = "height exceeds max"
        /\ (Len(pattern.obstacles) = 1 /\ ResolvedNow[1].height <= MAX_OBSTACLE_HEIGHT)
              => ares.is_valid
        /\ ares.reason = "height exceeds max" =>
              ares.index = 0 /\ ResolvedNow[1].height > MAX_OBSTACLE_HEIGHT

\* a pattern was rejected for its first obstacle, 120px high
C16_Witness ==
    /\ AnalyticReturned
    /\ Len(pattern.obstacles) = 2
    /\ ares.reason = "height exceeds max"
    /\ ResolvedNow[1].height > MAX_OBSTACLE_HEIGHT

\* the rejection is one for a height difference
HeightDifferenceReason(reason) ==
    reason \in {"stack climb exceeds max", "upward jump exceeds max forward jump"}

\* C17: a rejection for a height difference is a rejection of a transition
\* to a higher obstacle
C17_OnlyIncreasesConstrained ==
    (AnalyticReturned /\ HeightDifferenceReason(ares.reason)) =>
        ResolvedNow[ares.index + 1].height > ResolvedNow[ares.index].height

\* ------------------------------------------------------------ width scaling
ScaleOf(suffix) == IF suffix = "_medium" THEN MEDIUM_SCALE ELSE EASY_SCALE

\* max(2, floor(width * f)) for f = scale_pct / 100
ExpectedWidth(width, scale_pct) ==
    IF (width * scale_pct) \div 100 < 2 THEN 2 ELSE (width * scale_pct) \div 100

WithWidth(bar_type, width) == [bar_type EXCEPT ![1] = width]

\* C18: the step that builds a scaled variant leaves the list it scales and
\* its obstacles unchanged, and the new list has the same length and order,
\* each obstacle equal to its input but for the width field of bar_type,
\* which is max(2, floor(width * f))
C18_ScalingChangesWidthOnly ==
    [][(variant = "_hard" /\ variant' # "_hard") =>
          /\ base' = base
          /\ Len(created'.obstacles) = Len(base.obstacles)
          /\ \A i \in 1..Len(base.obstacles) :
                created'.obstacles[i] =
                    [base.obstacles[i] EXCEPT !.bar_type =
                        WithWidth(@, ExpectedWidth(@[1], ScaleOf(variant')))]]_vars

\* a list scaled by 1.25 in which a width of 4 became 5, a width of 1 became 2
\* and a floating platform kept its floor and ceiling
C18_Witness ==
    /\ variant = "_easy"
    /\ Len(created.obstacles) = 3
    /\ base.obstacles[1].bar_type = <<4, 0>> /\ created.obstacles[1].bar_type = <<5, 0>>
    /\ base.obstacles[2].bar_type = <<1, 1>> /\ created.obstacles[2].bar_type = <<2, 1>>
    /\ base.obstacles[3].bar_type = <<4, 8, 9>>
    /\ created.obstacles[3].bar_type = <<5, 8, 9>>
    /\ created.obstacles[3].gap_type = base.obstacles[3].gap_type

\* ------------------------------------------------------- derived constants
\* C20: the derived constants are 98, 225, 60, 39 and 58, ordered
\* forward-jump limit < climb limit < max_obstacle_height, and these are the
\* limits the analytic validator applies and prints in its rejections
C20_DerivedConstants ==
    /\ MAX_OBSTACLE_HEIGHT = 98
    /\ MAX_JUMP_DISTANCE = 225
    /\ MIN_SAFE_GAP = 60
    /\ MAX_FORWARD_JUMP_HEIGHT = 39
    /\ MAX_CLIMB_HEIGHT = 58
    /\ MAX_FORWARD_JUMP_HEIGHT < MAX_CLIMB_HEIGHT
    /\ MAX_CLIMB_HEIGHT < MAX_OBSTACLE_HEIGHT
    /\ (AnalyticReturned /\ ~ares.is_valid /\ pattern.obstacles # <<>>) =>
          /\ ares.reason = "height exceeds max" => ares.limit = 98 /\ ares.value > 98
          /\ ares.reason = "gap exceeds max jump distance" =>
                ares.limit = 225 /\ ares.value > 225
          /\ ares.reason = "gap less than min safe gap for narrow platform" =>
                ares.limit = 60 /\ ares.value < 60
          /\ ares.reason = "upward jump exceeds max forward jump" =>
                ares.limit = 39 /\ ares.value > 39
          /\ ares.reason = "stack climb exceeds max" =>
                ares.limit = 58 /\ ares.value > 58

\* a stacked climb of 90px was rejected against the climb limit
C20_Witness ==
    /\ AnalyticReturned
    /\ ares.reason = "stack climb exceeds max"
    /\ ares.value = 90
    /\ ares.limit = MAX_CLIMB_HEIGHT

\* ------------------------------------------------------ failure as a value
\* C19: on a pattern built by create_platform / create_floating_platform from
\* integers, and on the empty list, validate_pattern returns a result and
\* does not raise; the empty list gives (False, "No obstacles in pattern", False)
C19_NeverRaises ==
    Validated =>
        /\ vres # RaisedValueError
        /\ pattern.obstacles = <<>> =>
              vres = [is_valid |-> FALSE, reason |-> "No obstacles in pattern",
                      index |-> -1, touches_ground |-> FALSE]

\* ---------------------------------------------------------------- scoring
ScoreEquation(m) == m.score = m.distance \div 100 + m.landing_bonus

\* a call of instance i returned in this step, and the call was op
CallReturned(i, op) ==
    /\ scoreVars' # scoreVars
    /\ managers[i].pc = "idle" /\ managers'[i].pc = "idle"
    /\ last_call'.op = op /\ last_call'.who = i

\* C21: after every update_distance, add_landing_bonus and reset the score
\* is floor(distance / 100) + landing_bonus; add_landing_bonus(c) raises
\* landing_bonus by exactly 5 + c and returns 5 + c; reset zeroes distance,
\* score and landing_bonus and keeps high_score
C21_ScoreArithmetic ==
    [][\A i \in DOMAIN managers :
          /\ ScoreEquation(managers'[i])
          /\ CallReturned(i, "add_landing_bonus") =>
                /\ managers'[i].landing_bonus =
                       managers[i].landing_bonus + 5 + last_call'.arg
                /\ last_call'.value = 5 + last_call'.arg
          /\ CallReturned(i, "reset") =>
                /\ managers'[i].distance = 0
                /\ managers'[i].score = 0
                /\ managers'[i].landing_bonus = 0
                /\ managers'[i].high_score = managers[i].high_score]_vars

\* a landing with a combo streak of 3 returned 8 on an instance that had moved
\* backwards: distance -50, bonus 13, score floor(-0.5) + 13 = 12
C21_Witness ==
    /\ last_call = Returned("add_landing_bonus", 1, 3, 8, FALSE)
    /\ managers[1].distance = -50
    /\ managers[1].landing_bonus = 13
    /\ managers[1].score = 12
    /\ managers[1].high_score > 0

\* C22: the high score stored for the player never decreases, whatever the
\* interleaving of check_and_save_high_score calls of the instances
C22_StoredHighScoreNeverDecreases ==
    [][load_high_score(save_file', PlayerName)
          >= load_high_score(save_file, PlayerName)]_vars

\* ---------------------------------------------------------- the jump arc
HelperReturned(fn) == helper.fn = fn

\* the velocity added to y to get point k (k >= 2), in fifths of a pixel
VelocityInto(k) == JUMP_POWER5 + (k - 2) * GRAVITY5

\* C23: calculate_jump_trajectory returns between 1 and 50 points; the first
\* is (start_x, start_y); each next one adds 6 to x and the current velocity
\* to y, the velocity starting at -15 and growing by 0.8; no point after the
\* first has y >= GROUND_Y, and a list shorter than 50 stops right before the
\* position that would have y >= GROUND_Y
C23_TrajectoryShape ==
    HelperReturned("calculate_jump_trajectory") =>
        LET t == helper.result
            n == Len(t)
        IN  /\ n >= 1 /\ n <= 50
            /\ t[1] = [x |-> helper.args[1], y5 |-> 5 * helper.args[2]]
            /\ \A k \in 2..n :
                  /\ t[k].x = t[k - 1].x + 6
                  /\ t[k].y5 = t[k - 1].y5 + VelocityInto(k)
                  /\ t[k].y5 < 5 * 600
            /\ n < 50 => t[n].y5 + VelocityInto(n + 1) >= 5 * 600

\* a jump from the ground: the first point is on the ground plane, the arc
\* comes back to it and the list stops before the landing position
C23_Witness ==
    /\ HelperReturned("calculate_jump_trajectory")
    /\ helper.args = <<800, 600>>
    /\ helper.result[1].y5 = 5 * 600
    /\ Len(helper.result) > 30 /\ Len(helper.result) < 50
    /\ helper.result[Len(helper.result)].x > 800 + 200

NonDecreasing(s, from, to) == \A k \in (from + 1)..to : s[k - 1] <= s[k]
NonIncreasing(s, from, to) == \A k \in (from + 1)..to : s[k - 1] >= s[k]
StrictlyIncreasing(s) == \A k \in 2..Len(s) : s[k - 1] < s[k]
StrictlyDecreasing(s) == \A k \in 2..Len(s) : s[k - 1] > s[k]

\* C25: wave_heights(count, low, high) with count >= 1 and low <= high
\* returns exactly count heights, all within [low, high], non-decreasing over
\* the first half and non-increasing over the second half
C25_WaveHasCountHeights ==
    HelperReturned("wave_heights") =>
        LET count == helper.args[1]
            low == helper.args[2]
            high == helper.args[3]
            heights == helper.result
            half == Len(heights) \div 2
        IN  /\ Len(heights) = count
            /\ \A k \in 1..Len(heights) : low <= heights[k] /\ heights[k] <= high
            /\ NonDecreasing(heights, 1, half)
            /\ NonIncreasing(heights, half + 1, Len(heights))

StrictBelow(s, cap) ==
    \A j \in 1..Len(s), k \in 1..Len(s) : (j < k /\ s[j] = s[k]) => s[j] = cap

C28_GapWithinBounds ==
    HelperReturned("random_gap") =>
        /\ helper.args[1] <= 25 * helper.result
        /\ 25 * helper.result <= helper.args[2]

\* C30: for every bar_type the builders emit, the width and landing-surface
\* height validate_pattern resolves equal the width and the height of the top
\* edge the game gives the obstacle
C30_ValidatorMatchesGame ==
    HelperReturned("resolve") =>
        /\ helper.result.validator.width = helper.result.game.width
        /\ helper.result.validator.height = ObstacleTopAboveGround(helper.result.game)

\* ------------------------------------------------ safe height transitions
\* the landing-surface height validate_pattern resolves, in grid units
SurfaceUnits(obs) == ParseBar(obs.bar_type).height \div GRID

\* C27: in the patterns of zigzag_chaos_v4, mixed_madness_v4 and
\* kitchen_sink_v4 every obstacle from the second on has its landing surface
\* at most 1 grid unit below that of the obstacle before it
C27_NoBigDrop ==
    \A k \in 2..Len(loop.obstacles) :
        SurfaceUnits(loop.obstacles[k]) >= SurfaceUnits(loop.obstacles[k - 1]) - 1

\* ----------------------------------------------------- difficulty variants
BarWidth(obs) == obs.bar_type[1]
HeightParts(obs) == Tail(obs.bar_type)

\* the pattern is built from the obstacle list: same length, type and rhythm
\* of generator g, same heights and gaps position by position
BuiltFrom(p, obstacles, g) ==
    /\ Len(p.obstacles) = Len(obstacles)
    /\ p.metadata.length = Len(obstacles)
    /\ p.metadata.type = GeneratorTypes[g]
    /\ p.metadata.rhythm = GeneratorRhythms[g]
    /\ \A k \in 1..Len(obstacles) :
          /\ HeightParts(p.obstacles[k]) = HeightParts(obstacles[k])
          /\ p.obstacles[k].gap_type = obstacles[k].gap_type

\* C29: the list generate_difficulty_variants returns holds exactly three
\* patterns, hard, medium and easy in that order, all built from one list
\* the generator returned: same number of obstacles, same metadata type,
\* rhythm and length, same heights and gaps position by position, the hard
\* widths those of the base and width(hard) <= width(medium) <= width(easy)
C29_ThreeVariantsOfOneBase ==
    pc = "save" =>
        /\ Len(variants) = 3
        /\ <<variants[1].suffix, variants[2].suffix, variants[3].suffix>>
               = <<"_hard", "_medium", "_easy">>
        /\ \E obstacles \in GeneratorSamples(gen) :
              /\ \A v \in 1..3 : BuiltFrom(variants[v].pattern, obstacles, gen)
              /\ \A k \in 1..Len(obstacles) :
                    /\ BarWidth(variants[1].pattern.obstacles[k]) = BarWidth(obstacles[k])
                    /\ BarWidth(variants[1].pattern.obstacles[k])
                           <= BarWidth(variants[2].pattern.obstacles[k])
                    /\ BarWidth(variants[2].pattern.obstacles[k])
                           <= BarWidth(variants[3].pattern.obstacles[k])

\* the variants of the mixed-type kitchen sink: a width of 4 stays 4 in the
\* medium variant and becomes 5 in the easy one
C29_Witness ==
    /\ pc = "save"
    /\ GeneratorTypes[gen] = "mixed"
    /\ variants[1].pattern.metadata.type = "mixed"
    /\ BarWidth(variants[1].pattern.obstacles[1]) = 4
    /\ BarWidth(variants[2].pattern.obstacles[1]) = 4
    /\ BarWidth(variants[3].pattern.obstacles[1]) = 5

====
